---------------------------- MODULE Spec2Model ----------------------------
(***************************************************************************)
(* Local Vault Manager: the App component (edit buffer, storage mirror,    *)
(* notification slot) over the browser's localStorage.                     *)
(*                                                                         *)
(* A JavaScript string is modelled as the sequence of its code points      *)
(* (32 = space, 9 = tab, 97 = "a", 98 = "b", 120 = "x", 233 = e-acute,     *)
(* 49 = "1"); the empty string is << >>.                                   *)
(***************************************************************************)
EXTENDS Integers, Sequences, FiniteSets, TLC

VARIABLES
    inputs,        \* useState<KeyValuePair[]>: the draft rows
    store,         \* localStorage: the value stored under each key present
    storedItems,   \* useState<LocalStorageItem[]>: the projection
    notification,  \* useState<{message, type} | null>
    timers,        \* number of setTimeout dismissal callbacks still pending
    lastOp,        \* the handler that ran last ("init" before the mount effect)
    sample         \* generateSampleData: every call made so far, in call order

vars == <<inputs, store, storedItems, notification, timers, lastOp, sample>>

\* The state of the App component
appVars == <<inputs, store, storedItems, notification, timers, lastOp>>

(***************************************************************************)
(* Bounds of the model.                                                    *)
(***************************************************************************)
MaxRows == 2      \* addRow is not offered beyond this many draft rows
MaxTimers == 2    \* no new notification while this many dismissals are pending
MaxCalls == 2     \* generateSampleData is not called beyond this many calls

\* The strings generateId can return (two draws may coincide).
Ids == {"r1", "r2"}

\* What the user can type into a key field / a value field.
KeyInputs == {<< >>, <<32>>, <<97>>, <<9, 97, 32>>}
ValueInputs == {<< >>, <<32, 233>>}

\* Keys deleteItem can be asked to remove.
DeleteKeys == {<<97>>, <<98>>}

\* What localStorage may hold when the page loads.
InitStores == {<< >>, (<<98>> :> <<49>>)}

\* getItem's null: told apart from every string, whose code points are >= 0
Null == <<-1>>

\* The notification state holding null: nothing is shown
NoNotification == [message |-> << >>, type |-> "none"]

(***************************************************************************)
(* String helpers                                                          *)
(***************************************************************************)
\* White space and line terminators String.prototype.trim strips.
IsWhiteSpace(c) == c \in {9, 10, 11, 12, 13, 32, 160, 5760, 8232, 8233, 8239, 8287, 12288, 65279}
                   \/ (c >= 8192 /\ c <= 8202)

RECURSIVE trimStart(_)
trimStart(s) ==
    IF s = << >> THEN << >>
    ELSE IF IsWhiteSpace(Head(s)) THEN trimStart(Tail(s))
    ELSE s

RECURSIVE trimEnd(_)
trimEnd(s) ==
    IF s = << >> THEN << >>
    ELSE IF IsWhiteSpace(s[Len(s)]) THEN trimEnd(SubSeq(s, 1, Len(s) - 1))
    ELSE s

\* row.key.trim()
trim(s) == trimEnd(trimStart(s))

\* A string used as a condition: the empty string is falsy.
Truthy(s) == s # << >>

\* a.localeCompare(b) as -1 / 0 / 1.  On the key alphabet of this model
\* (space, tab, lower-case ASCII letters) the collation order is the
\* code-point order, a proper prefix sorting first.
RECURSIVE localeCompare(_, _)
localeCompare(a, b) ==
    IF a = << >> /\ b = << >> THEN 0
    ELSE IF a = << >> THEN -1
    ELSE IF b = << >> THEN 1
    ELSE IF Head(a) < Head(b) THEN -1
    ELSE IF Head(a) > Head(b) THEN 1
    ELSE localeCompare(Tail(a), Tail(b))

\* Bytes of one code point in UTF-8 (what Blob stores for a string part).
Utf8Len(c) == IF c < 128 THEN 1 ELSE IF c < 2048 THEN 2 ELSE IF c < 65536 THEN 3 ELSE 4

\* Faulty variant: the size is the string's length
BlobSizeLength(s) == Len(s)

RECURSIVE BlobSize(_)
\* new Blob([s]).size
BlobSize(s) == IF s = << >> THEN 0 ELSE Utf8Len(Head(s)) + BlobSize(Tail(s))

(***************************************************************************)
(* localStorage                                                            *)
(***************************************************************************)
\* A store is a function from the keys present to their values; the empty
\* store is << >>.  The order in which key(i) enumerates the keys is left to
\* the browser and is no part of the store's state: it is chosen by the
\* loop that reads it (KeyOrders).
Keys(st) == DOMAIN st

\* localStorage.length
length(st) == Cardinality(Keys(st))

HasKey(st, k) == k \in Keys(st)

\* localStorage.getItem(k): the value, or Null
getItem(st, k) == IF HasKey(st, k) THEN st[k] ELSE Null

\* Faulty variant: a set that adds the value to the one already stored
setItemConcat(st, k, v) ==
    [x \in Keys(st) \cup {k} |->
        IF x = k THEN (IF HasKey(st, k) THEN st[k] \o v ELSE v) ELSE st[x]]

\* localStorage.setItem(k, v): the value under k is v, every other key is
\* as before
setItem(st, k, v) == [x \in Keys(st) \cup {k} |-> IF x = k THEN v ELSE st[x]]

\* localStorage.removeItem(k): absent key is a no-op
removeItem(st, k) == [x \in Keys(st) \ {k} |-> st[x]]

\* Faulty variant: a clear that leaves one entry behind
clearButOne(st) ==
    IF Keys(st) = {} THEN st
    ELSE [x \in {CHOOSE k \in Keys(st) : TRUE} |-> st[x]]

\* localStorage.clear()
clear(st) == << >>

\* The orders in which key(0), key(1), ... can enumerate the keys of st:
\* every arrangement of the keys, each key once
KeyOrders(st) ==
    {o \in [1..length(st) -> Keys(st)] : \A i, j \in 1..length(st) : o[i] = o[j] => i = j}

(***************************************************************************)
(* generateId                                                              *)
(***************************************************************************)
\* Math.random().toString(36).substr(2, 9): some string of Ids; nothing
\* relates one draw to another.
generateId == Ids

(***************************************************************************)
(* Storage mirror                                                          *)
(***************************************************************************)
\* The item pushed for a key k = key(i): value is getItem(k) || '', size the
\* Blob size
ItemAt(st, k) ==
    LET v == IF getItem(st, k) # Null /\ Truthy(getItem(st, k)) THEN getItem(st, k) ELSE << >>
    IN  [key |-> k, value |-> v, size |-> BlobSize(k \o v)]

\* The loop over localStorage.length when key(i) enumerates in this order
ScanItems(st, order) == [i \in 1..Len(order) |-> ItemAt(st, order[i])]

\* Insert x into a list already in order, after the elements that do not
\* compare greater than it.
RECURSIVE InsertSorted(_, _)
InsertSorted(x, sorted) ==
    IF sorted = << >> THEN <<x>>
    ELSE IF localeCompare(Head(sorted).key, x.key) <= 0
         THEN <<Head(sorted)>> \o InsertSorted(x, Tail(sorted))
         ELSE <<x>> \o sorted

\* items.sort((a, b) => a.key.localeCompare(b.key))
RECURSIVE SortItems(_)
SortItems(items) ==
    IF items = << >> THEN << >>
    ELSE InsertSorted(items[Len(items)], SortItems(SubSeq(items, 1, Len(items) - 1)))

\* Faulty variant: the scanned items are stored without the sort
refreshUnsorted(st) == {ScanItems(st, order) : order \in KeyOrders(st)}

\* The lists refreshStoredItems can hand to setStoredItems: one for each
\* order key(i) can enumerate in
refreshStoredItems(st) == {SortItems(ScanItems(st, order)) : order \in KeyOrders(st)}

(***************************************************************************)
(* Notifications                                                           *)
(***************************************************************************)
\* `${count}`: the decimal digits of a non-negative integer
RECURSIVE NumberToString(_)
NumberToString(n) ==
    IF n < 10 THEN <<48 + n>> ELSE NumberToString(n \div 10) \o <<48 + (n % 10)>>

\* A message is the list of its template parts; a part that is substituted
\* is a string of code points.
SavedMessage(count) == <<"Successfully saved ", NumberToString(count), " item(s)">>
NoKeyMessage == <<"Please enter at least one key">>
DeletedMessage(k) == <<"Deleted \"", k, "\"">>
ClearedMessage == <<"LocalStorage cleared">>
CopiedMessage == <<"Value copied to clipboard!">>

\* showNotification: set the slot and start one more dismissal timer; the
\* timers already pending are left running.
showNotification(message, type) ==
    /\ timers < MaxTimers
    /\ notification' = [message |-> message, type |-> type]
    /\ timers' = timers + 1

\* Faulty variant: the callback runs but leaves the slot as it is
TimerFiresKeepsSlot ==
    /\ timers > 0
    /\ timers' = timers - 1
    /\ lastOp' = "timer"
    /\ UNCHANGED <<inputs, store, storedItems, notification>>
    /\ UNCHANGED sample

\* A pending setTimeout callback runs: setNotification(null).  Timers of equal
\* delay run in the order they were started, so the one that runs is the
\* oldest pending one.
TimerFires ==
    /\ timers > 0
    /\ timers' = timers - 1
    /\ notification' = NoNotification
    /\ lastOp' = "timer"
    /\ UNCHANGED <<inputs, store, storedItems>>
    /\ UNCHANGED sample

(***************************************************************************)
(* Edit buffer                                                             *)
(***************************************************************************)
EmptyRow(id) == [id |-> id, key |-> << >>, value |-> << >>]

Mounted == lastOp # "init"

\* useEffect(() => refreshStoredItems(), ...) after the first render
Mount ==
    /\ lastOp = "init"
    /\ storedItems' \in refreshStoredItems(store)
    /\ lastOp' = "mount"
    /\ UNCHANGED <<inputs, store, notification, timers>>
    /\ UNCHANGED sample

addRow ==
    /\ Mounted
    /\ Len(inputs) < MaxRows
    /\ \E id \in generateId : inputs' = Append(inputs, EmptyRow(id))
    /\ lastOp' = "addRow"
    /\ UNCHANGED <<store, storedItems, notification, timers>>
    /\ UNCHANGED sample

\* inputs.filter(row => row.id !== id), only when inputs.length > 1
RemoveRowResult(rows, id) ==
    IF Len(rows) > 1 THEN SelectSeq(rows, LAMBDA row : row.id # id) ELSE rows

removeRow ==
    /\ Mounted
    /\ \E id \in Ids : inputs' = RemoveRowResult(inputs, id)
    /\ lastOp' = "removeRow"
    /\ UNCHANGED <<store, storedItems, notification, timers>>
    /\ UNCHANGED sample

\* Faulty variant: the typed text is trimmed before it is stored in the row
UpdateFieldTrimmed(rows, id, field, val) ==
    [i \in 1..Len(rows) |->
        IF rows[i].id = id THEN [rows[i] EXCEPT ![field] = trim(val)] ELSE rows[i]]

\* inputs.map(row => row.id === id ? {...row, [field]: val} : row)
UpdateFieldResult(rows, id, field, val) ==
    [i \in 1..Len(rows) |->
        IF rows[i].id = id THEN [rows[i] EXCEPT ![field] = val] ELSE rows[i]]

\* Faulty variant: a typed key is written through to the store at once
handleInputChangeAutosave ==
    /\ Mounted
    /\ \E id \in Ids :
          \/ \E val \in KeyInputs :
                /\ inputs' = UpdateFieldResult(inputs, id, "key", val)
                /\ store' = IF Truthy(trim(val)) THEN setItem(store, trim(val), << >>) ELSE store
          \/ \E val \in ValueInputs :
                /\ inputs' = UpdateFieldResult(inputs, id, "value", val)
                /\ store' = store
    /\ lastOp' = "updateField"
    /\ UNCHANGED <<storedItems, notification, timers>>
    /\ UNCHANGED sample

handleInputChange ==
    /\ Mounted
    /\ \E id \in Ids :
          \/ \E val \in KeyInputs : inputs' = UpdateFieldResult(inputs, id, "key", val)
          \/ \E val \in ValueInputs : inputs' = UpdateFieldResult(inputs, id, "value", val)
    /\ lastOp' = "updateField"
    /\ UNCHANGED <<store, storedItems, notification, timers>>
    /\ UNCHANGED sample

(***************************************************************************)
(* Save                                                                    *)
(***************************************************************************)
\* Faulty variant: the row is written under its key as typed
SaveRowUntrimmed(st, row) ==
    IF Truthy(trim(row.key)) THEN setItem(st, row.key, row.value) ELSE st

\* Faulty variant: only leading white space is removed from the key
SaveRowTrimStartOnly(st, row) ==
    IF Truthy(trim(row.key)) THEN setItem(st, trimStart(row.key), row.value) ELSE st

\* One iteration of inputs.forEach: write the row when its trimmed key is truthy
SaveRow(st, row) ==
    IF Truthy(trim(row.key)) THEN setItem(st, trim(row.key), row.value) ELSE st

\* The store after the forEach over rows, in buffer order
RECURSIVE SaveStore(_, _)
SaveStore(rows, st) ==
    IF rows = << >> THEN st
    ELSE SaveStore(Tail(rows), SaveRow(st, Head(rows)))

\* Faulty variant: the count is of the distinct keys written
SaveCountDistinct(rows) ==
    Cardinality({trim(rows[i].key) : i \in 1..Len(rows)} \ {<< >>})

\* count after the forEach
SaveCount(rows) == Len(SelectSeq(rows, LAMBDA row : Truthy(trim(row.key))))

\* Faulty variant: the buffer is reset after a rejected save too
saveToLocalStorageAlwaysResets ==
    /\ Mounted
    /\ store' = SaveStore(inputs, store)
    /\ IF SaveCount(inputs) > 0
       THEN /\ showNotification(SavedMessage(SaveCount(inputs)), "success")
            /\ storedItems' \in refreshStoredItems(store')
            /\ \E id \in generateId : inputs' = <<EmptyRow(id)>>
            /\ lastOp' = "saveOk"
       ELSE /\ showNotification(NoKeyMessage, "error")
            /\ \E id \in generateId : inputs' = <<EmptyRow(id)>>
            /\ lastOp' = "saveRejected"
            /\ UNCHANGED storedItems
    /\ UNCHANGED sample

\* Faulty variant: a successful save does not refresh the projection
saveToLocalStorageNoRefresh ==
    /\ Mounted
    /\ store' = SaveStore(inputs, store)
    /\ IF SaveCount(inputs) > 0
       THEN /\ showNotification(SavedMessage(SaveCount(inputs)), "success")
            /\ \E id \in generateId : inputs' = <<EmptyRow(id)>>
            /\ lastOp' = "saveOk"
            /\ UNCHANGED storedItems
       ELSE /\ showNotification(NoKeyMessage, "error")
            /\ lastOp' = "saveRejected"
            /\ UNCHANGED <<inputs, storedItems>>
    /\ UNCHANGED sample

saveToLocalStorage ==
    /\ Mounted
    /\ store' = SaveStore(inputs, store)
    /\ IF SaveCount(inputs) > 0
       THEN /\ showNotification(SavedMessage(SaveCount(inputs)), "success")
            /\ storedItems' \in refreshStoredItems(store')
            /\ \E id \in generateId : inputs' = <<EmptyRow(id)>>
            /\ lastOp' = "saveOk"
       ELSE /\ showNotification(NoKeyMessage, "error")
            /\ lastOp' = "saveRejected"
            /\ UNCHANGED <<inputs, storedItems>>
    /\ UNCHANGED sample

(***************************************************************************)
(* Delete / clear / copy                                                   *)
(***************************************************************************)
\* Faulty variant: the projection is not refreshed after the removal
deleteItemNoRefresh ==
    /\ Mounted
    /\ \E k \in DeleteKeys :
          /\ store' = removeItem(store, k)
          /\ showNotification(DeletedMessage(k), "success")
    /\ lastOp' = "deleteItem"
    /\ UNCHANGED <<inputs, storedItems>>
    /\ UNCHANGED sample

deleteItem ==
    /\ Mounted
    /\ \E k \in DeleteKeys :
          /\ store' = removeItem(store, k)
          /\ storedItems' \in refreshStoredItems(store')
          /\ showNotification(DeletedMessage(k), "success")
    /\ lastOp' = "deleteItem"
    /\ UNCHANGED inputs
    /\ UNCHANGED sample

\* Faulty variant: the store is cleared whatever confirm answers
clearAllIgnoresAnswer ==
    /\ Mounted
    /\ \E confirmed \in BOOLEAN :
          IF confirmed
          THEN /\ store' = clear(store)
               /\ storedItems' \in refreshStoredItems(store')
               /\ showNotification(ClearedMessage, "success")
               /\ lastOp' = "clearConfirmed"
               /\ UNCHANGED inputs
          ELSE /\ store' = clear(store)
               /\ storedItems' \in refreshStoredItems(store')
               /\ lastOp' = "clearDeclined"
               /\ UNCHANGED <<inputs, notification, timers>>
    /\ UNCHANGED sample

\* confirm(...) answers TRUE or FALSE
clearAll ==
    /\ Mounted
    /\ \E confirmed \in BOOLEAN :
          IF confirmed
          THEN /\ store' = clear(store)
               /\ storedItems' \in refreshStoredItems(store')
               /\ showNotification(ClearedMessage, "success")
               /\ lastOp' = "clearConfirmed"
               /\ UNCHANGED inputs
          ELSE /\ lastOp' = "clearDeclined"
               /\ UNCHANGED <<inputs, store, storedItems, notification, timers>>
    /\ UNCHANGED sample

\* The copy button of a listed item (the clipboard itself is write-only here)
copyValue ==
    /\ Mounted
    /\ storedItems # << >>
    /\ showNotification(CopiedMessage, "success")
    /\ lastOp' = "copy"
    /\ UNCHANGED <<inputs, store, storedItems>>
    /\ UNCHANGED sample

(***************************************************************************)
(* generateSampleData (services/geminiService.ts)                          *)
(***************************************************************************)
\* The default of the count parameter
DefaultCount == 3

\* The counts generateSampleData is called with
Counts == {1, DefaultCount}

\* What response.text can be: a list of one pair, an empty list, the JSON
\* null, a truncated list, the empty text, and a missing text (undefined),
\* which JSON.parse reads as the text "undefined"
ResponseTexts ==
    {"[{\"key\":\"theme\",\"value\":\"dark\"}]", "[]", "null", "[{\"key\":", "", "undefined"}

\* No response has arrived
NoResponse == "<no response>"

\* JSON.parse(text) on ResponseTexts: the value, or the SyntaxError it throws
JSONParse(text) ==
    CASE text = "[{\"key\":\"theme\",\"value\":\"dark\"}]" ->
            [ok |-> TRUE,
             json |-> [type |-> "array", items |-> <<[key |-> "theme", value |-> "dark"]>>]]
      [] text = "[]" -> [ok |-> TRUE, json |-> [type |-> "array", items |-> << >>]]
      [] text = "null" -> [ok |-> TRUE, json |-> [type |-> "null"]]
      [] OTHER -> [ok |-> FALSE, error |-> "SyntaxError"]

\* The [] of the catch block
EmptyList == [type |-> "array", items |-> << >>]

\* A call of generateSampleData(count) that has reached its await: one
\* generateContent request whose prompt names count
NewCall(count) ==
    [pc |-> "awaiting", requests |-> <<count>>, text |-> NoResponse, result |-> [kind |-> "none"]]

\* The calls waiting at the await
Awaiting == {i \in 1..Len(sample) : sample[i].pc = "awaiting"}

\* generateSampleData(count) up to its await.  Nothing holds a call back
\* while earlier ones are waiting: each call sends its own request
GenerateSampleDataCall ==
    /\ Len(sample) < MaxCalls
    /\ \E count \in Counts : sample' = Append(sample, NewCall(count))
    /\ UNCHANGED appVars

\* Faulty variant: a response that does not parse is asked for again
GenerateContentResolvesRetrying ==
    /\ \E i \in Awaiting, text \in ResponseTexts :
          /\ sample' = IF JSONParse(text).ok
                       THEN [sample EXCEPT ![i].pc = "returned", ![i].text = text,
                                           ![i].result = [kind |-> "value", json |-> JSONParse(text).json]]
                       ELSE [sample EXCEPT ![i].requests = Append(@, Head(@))]
          /\ Len(sample'[i].requests) <= 2
    /\ UNCHANGED appVars

\* The request of one waiting call resolves:
\* try { return JSON.parse(response.text) } catch { return [] }
GenerateContentResolves ==
    /\ \E i \in Awaiting, text \in ResponseTexts :
          sample' = [sample EXCEPT
                       ![i].pc = "returned",
                       ![i].text = text,
                       ![i].result = IF JSONParse(text).ok
                                     THEN [kind |-> "value", json |-> JSONParse(text).json]
                                     ELSE [kind |-> "value", json |-> EmptyList]]
    /\ UNCHANGED appVars

\* The request of one waiting call rejects: the await is outside the try,
\* so the call throws
GenerateContentRejects ==
    /\ \E i \in Awaiting :
          sample' = [sample EXCEPT ![i].pc = "thrown", ![i].result = [kind |-> "exception"]]
    /\ UNCHANGED appVars

(***************************************************************************)
(* Specification                                                           *)
(***************************************************************************)
Init ==
    /\ \E id \in generateId : inputs = <<EmptyRow(id)>>
    /\ store \in InitStores
    /\ storedItems = << >>
    /\ notification = NoNotification
    /\ timers = 0
    /\ lastOp = "init"
    /\ sample = << >>

Next ==
    \/ Mount
    \/ addRow
    \/ removeRow
    \/ handleInputChange
    \/ saveToLocalStorage
    \/ deleteItem
    \/ clearAll
    \/ copyValue
    \/ TimerFires

\* generateSampleData called while the draft buffer is being edited
NextSample ==
    \/ Mount
    \/ handleInputChange
    \/ GenerateSampleDataCall
    \/ GenerateContentResolves
    \/ GenerateContentRejects

SpecSample == Init /\ [][NextSample]_vars

\* The page loaded over an empty localStorage
InitEmptyStore == Init /\ Keys(store) = {}

SpecEmptyStore == InitEmptyStore /\ [][Next]_vars

Spec == Init /\ [][Next]_vars

\* The notification slot on its own: the handlers that post a notification,
\* the edits of the first draft row that decide what save posts, and the
\* timer callbacks, which the event loop runs once they are due.
NextNotify ==
    \/ Mount
    \/ handleInputChange
    \/ saveToLocalStorage
    \/ deleteItem
    \/ clearAll
    \/ copyValue
    \/ TimerFires

SpecNotify == Init /\ [][NextNotify]_vars /\ WF_vars(TimerFires)

(***************************************************************************)
(* Vocabulary of the properties                                            *)
(***************************************************************************)
SaveOps == {"saveOk", "saveRejected"}
RefreshOps == {"mount", "saveOk", "deleteItem", "clearConfirmed"}

\* Every key the model can meet: typed, trimmed, asked to be deleted, stored
KeyUniverse ==
    KeyInputs \cup {trim(k) : k \in KeyInputs} \cup DeleteKeys
        \cup UNION {Keys(st) : st \in InitStores}

\* Indices of the rows whose trimmed key is k
RowsWithKey(rows, k) == {i \in 1..Len(rows) : trim(rows[i].key) = k}

\* Indices of the rows save writes
WrittenRows(rows) == {i \in 1..Len(rows) : trim(rows[i].key) # << >>}

MaxOf(S) == CHOOSE m \in S : \A n \in S : n <= m

\* items is the sorted-by-key contents of st
ProjectionMatches(items, st) ==
    /\ Len(items) = length(st)
    /\ \A i \in 1..Len(items) : getItem(st, items[i].key) = items[i].value
    /\ \A k \in Keys(st) : Cardinality({i \in 1..Len(items) : items[i].key = k}) = 1
    /\ \A i, j \in 1..Len(items) : i < j => localeCompare(items[i].key, items[j].key) < 0

(***************************************************************************)
(* C1: the draft buffer never holds fewer than one row.                    *)
(***************************************************************************)
C1_BufferNeverEmpty == Len(inputs) >= 1

(***************************************************************************)
(* C2: after save, every key some row trims to (non-empty) holds the       *)
(* untrimmed value of the last such row; every other key is as before.     *)
(***************************************************************************)
C2_SaveWritesLastWins ==
    [][lastOp' \in SaveOps =>
         \A k \in KeyUniverse \cup Keys(store) \cup Keys(store') :
            IF k # << >> /\ RowsWithKey(inputs, k) # {}
            THEN getItem(store', k) = inputs[MaxOf(RowsWithKey(inputs, k))].value
            ELSE getItem(store', k) = getItem(store, k)]_vars

\* two rows trimmed to the same key were saved and the later value stands,
\* with its leading space, next to an untouched older entry
C2_Witness ==
    /\ lastOp = "saveOk"
    /\ notification.message = SavedMessage(2)
    /\ getItem(store, <<97>>) = <<32, 233>>
    /\ getItem(store, <<98>>) = <<49>>

(***************************************************************************)
(* C3: a save with at least one non-blank key notifies success with the    *)
(* number of such rows, refreshes the projection and resets the buffer to  *)
(* one empty row.                                                          *)
(***************************************************************************)
C3_SaveSuccess ==
    [][(lastOp' \in SaveOps /\ WrittenRows(inputs) # {}) =>
         /\ notification' = [message |-> SavedMessage(Cardinality(WrittenRows(inputs))),
                             type |-> "success"]
         /\ ProjectionMatches(storedItems', store')
         /\ Len(inputs') = 1
         /\ inputs'[1].key = << >>
         /\ inputs'[1].value = << >>]_vars

\* two rows with the same trimmed key were saved: count 2, one stored entry
C3_Witness ==
    /\ lastOp = "saveOk"
    /\ notification = [message |-> SavedMessage(2), type |-> "success"]
    /\ length(store) = 1
    /\ Len(storedItems) = 1
    /\ Len(inputs) = 1

(***************************************************************************)
(* C4: a save with only blank keys notifies an error and leaves buffer,    *)
(* store and projection alone.                                             *)
(***************************************************************************)
C4_SaveRejected ==
    [][(lastOp' \in SaveOps /\ WrittenRows(inputs) = {}) =>
         /\ notification'.type = "error"
         /\ inputs' = inputs
         /\ store' = store
         /\ storedItems' = storedItems]_vars

\* a rejected save of two rows, one with a white-space key and a typed value
C4_Witness ==
    /\ lastOp = "saveRejected"
    /\ notification.type = "error"
    /\ Len(inputs) = 2
    /\ \E i \in 1..Len(inputs) : inputs[i].key = <<32>> /\ inputs[i].value # << >>
    /\ Keys(store) # {}

(***************************************************************************)
(* C5: right after every refresh the projection is the store's contents,   *)
(* one entry per key with its value, ascending by key.                     *)
(***************************************************************************)
C5_RefreshMirrorsStore ==
    [][lastOp' \in RefreshOps => ProjectionMatches(storedItems', store')]_vars

\* a refresh over a store of two keys, which key(i) may enumerate either way
C5_Witness ==
    /\ lastOp \in RefreshOps
    /\ Keys(store) = {<<97>>, <<98>>}
    /\ Cardinality(KeyOrders(store)) = 2
    /\ Len(storedItems) = 2
    /\ storedItems[1].key = <<97>>
    /\ storedItems[2].key = <<98>>

(***************************************************************************)
(* C6: a dismissal timer started by an earlier notification does not clear *)
(* a newer one: when a timer fires while a later one is still pending, the *)
(* notification shown stays.                                               *)
(***************************************************************************)
C6_StaleTimerSparesNewer ==
    [][(lastOp' = "timer" /\ timers >= 2) => notification' = notification]_vars

(***************************************************************************)
(* C7: deleteItem(key) removes exactly that key, refreshes the projection  *)
(* and notifies success naming the key, whether or not the key existed.    *)
(***************************************************************************)
C7_DeleteItem ==
    [][lastOp' = "deleteItem" =>
         \E k \in DeleteKeys :
            /\ notification' = [message |-> DeletedMessage(k), type |-> "success"]
            /\ Keys(store') = Keys(store) \ {k}
            /\ \A j \in Keys(store') : getItem(store', j) = getItem(store, j)
            /\ ProjectionMatches(storedItems', store')]_vars

\* "a" was deleted and "b" is what is left, in store and projection
C7_Witness ==
    /\ lastOp = "deleteItem"
    /\ notification.message = DeletedMessage(<<97>>)
    /\ Keys(store) = {<<98>>}
    /\ Len(storedItems) = 1
    /\ storedItems[1].key = <<98>>

(***************************************************************************)
(* C8: a confirmed clearAll empties store and projection and leaves the    *)
(* draft buffer alone.                                                     *)
(***************************************************************************)
C8_ClearConfirmed ==
    [][lastOp' = "clearConfirmed" =>
         /\ Keys(store') = {}
         /\ length(store') = 0
         /\ Len(storedItems') = 0
         /\ inputs' = inputs]_vars

\* cleared while two drafts, one of them typed, were in the buffer
C8_Witness ==
    /\ lastOp = "clearConfirmed"
    /\ notification.message = ClearedMessage
    /\ Keys(store) = {}
    /\ storedItems = << >>
    /\ Len(inputs) = 2
    /\ inputs[2].key = <<97>>

(***************************************************************************)
(* C9: a declined clearAll changes nothing and notifies nothing.           *)
(***************************************************************************)
C9_ClearDeclined ==
    [][lastOp' = "clearDeclined" =>
         /\ store' = store
         /\ storedItems' = storedItems
         /\ inputs' = inputs
         /\ notification' = notification
         /\ timers' = timers]_vars

\* declined with entries stored and a notification still showing
C9_Witness ==
    /\ lastOp = "clearDeclined"
    /\ length(store) = 2
    /\ Len(storedItems) = 2
    /\ notification.type = "success"
    /\ timers = 1

(***************************************************************************)
(* C10: saving the same rows again onto the store a save produced leaves   *)
(* that store as it is.                                                    *)
(***************************************************************************)
C10_SaveIdempotent ==
    [][lastOp' \in SaveOps => SaveStore(inputs, store') = store']_vars

\* a save that added a second entry to an older one
C10_Witness ==
    /\ lastOp = "saveOk"
    /\ Keys(store) = {<<97>>, <<98>>}
    /\ getItem(store, <<98>>) = <<49>>
    /\ notification.message = SavedMessage(1)

(***************************************************************************)
(* C11: addRow, removeRow and updateField leave store, projection and      *)
(* notification alone; only save, deleteItem and a confirmed clearAll      *)
(* change the store.                                                       *)
(***************************************************************************)
EditOps == {"addRow", "removeRow", "updateField"}

C11_EditsAreLocal ==
    [][/\ lastOp' \in EditOps =>
            /\ store' = store
            /\ storedItems' = storedItems
            /\ notification' = notification
       /\ store' # store => lastOp' \in {"saveOk", "deleteItem", "clearConfirmed"}]_vars

\* a key was typed into a draft while the store does not hold it and a
\* notification is showing
C11_Witness ==
    /\ lastOp = "updateField"
    /\ \E i \in 1..Len(inputs) : inputs[i].key = <<97>>
    /\ Keys(store) = {<<98>>}
    /\ Len(storedItems) = 1
    /\ notification # NoNotification

(***************************************************************************)
(* C12: addRow appends one empty row whose id differs from every id in the *)
(* buffer and leaves the rows before it as they were; so the ids in the    *)
(* buffer are pairwise distinct.                                           *)
(***************************************************************************)
IdsDistinct(rows) == \A i, j \in 1..Len(rows) : i # j => rows[i].id # rows[j].id

C12_AddRowFreshId ==
    [][lastOp' = "addRow" =>
         /\ Len(inputs') = Len(inputs) + 1
         /\ SubSeq(inputs', 1, Len(inputs)) = inputs
         /\ inputs'[Len(inputs')].key = << >>
         /\ inputs'[Len(inputs')].value = << >>
         /\ \A i \in 1..Len(inputs) : inputs[i].id # inputs'[Len(inputs')].id
         /\ IdsDistinct(inputs')]_vars

(***************************************************************************)
(* C13: the size of every projection entry is the encoded byte length of   *)
(* key followed by value: with single-byte characters only, the two        *)
(* lengths added; key "a" with value "bb" has size 3.                      *)
(***************************************************************************)
\* Bytes a string takes when encoded: one per code point below 128, two
\* below 2048, three for the others a UTF-16 unit can hold
RECURSIVE EncodedBytes(_)
EncodedBytes(s) ==
    IF s = << >> THEN 0
    ELSE (IF s[1] <= 127 THEN 1 ELSE IF s[1] <= 2047 THEN 2 ELSE 3) + EncodedBytes(Tail(s))

SingleByte(s) == \A i \in 1..Len(s) : s[i] <= 127

C13_SizeIsByteLength ==
    /\ \A i \in 1..Len(storedItems) :
          /\ storedItems[i].size = EncodedBytes(storedItems[i].key \o storedItems[i].value)
          /\ (SingleByte(storedItems[i].key) /\ SingleByte(storedItems[i].value))
                => storedItems[i].size = Len(storedItems[i].key) + Len(storedItems[i].value)
    /\ \A items \in refreshStoredItems((<<97>> :> <<98, 98>>)) : items[1].size = 3

\* an entry whose value holds a two-byte character: "a" with " e-acute" takes 4
C13_Witness ==
    \E i \in 1..Len(storedItems) :
        /\ storedItems[i].key = <<97>>
        /\ storedItems[i].value = <<32, 233>>
        /\ storedItems[i].size = 4

(***************************************************************************)
(* C14: updateField(id, field, value) puts the text as typed into the      *)
(* named field of the rows bearing the id and changes nothing else; an id  *)
(* no row bears leaves the buffer as it was.                               *)
(***************************************************************************)
OtherField(field) == IF field = "key" THEN "value" ELSE "key"

UpdatedOnly(before, after, id, field, val) ==
    /\ Len(after) = Len(before)
    /\ \A i \in 1..Len(before) :
          /\ after[i].id = before[i].id
          /\ after[i][OtherField(field)] = before[i][OtherField(field)]
          /\ after[i][field] = IF before[i].id = id THEN val ELSE before[i][field]
    /\ (\A i \in 1..Len(before) : before[i].id # id) => after = before

\* The texts that can be typed into a field
FieldInputs(field) == IF field = "key" THEN KeyInputs ELSE ValueInputs

\* For every buffer reached and every id, field and text handleInputChange
\* can be called with, the buffer it hands to setInputs is the old one with
\* exactly that text in that field of the rows bearing exactly that id, and
\* the old one itself when no row bears the id.
C14_UpdateFieldFrame ==
    \A id \in Ids : \A field \in {"key", "value"} : \A val \in FieldInputs(field) :
        UpdatedOnly(inputs, UpdateFieldResult(inputs, id, field, val), id, field, val)

\* after an edit: two rows of different ids, one holding a key and a value
\* with their white space, the other still empty; an update naming the
\* second row's id would reach that row and leave the first as typed
C14_Witness ==
    /\ lastOp = "updateField"
    /\ Len(inputs) = 2
    /\ inputs[1].id # inputs[2].id
    /\ inputs[1].key = <<9, 97, 32>>
    /\ inputs[1].value = <<32, 233>>
    /\ inputs[2].key = << >>
    /\ inputs[2].value = << >>
    /\ UpdateFieldResult(inputs, inputs[2].id, "key", <<9, 97, 32>>)[2].key = <<9, 97, 32>>
    /\ UpdateFieldResult(inputs, inputs[2].id, "key", <<9, 97, 32>>)[1] = inputs[1]

(***************************************************************************)
(* C16: once the mount refresh has run, the projection is the sorted       *)
(* contents of the store in every state.                                   *)
(***************************************************************************)
C16_ProjectionNeverStale == Mounted => ProjectionMatches(storedItems, store)

\* two entries stored and listed, some steps after the last refresh
C16_Witness ==
    /\ lastOp \in {"timer", "saveRejected", "clearDeclined", "removeRow"}
    /\ length(store) = 2
    /\ Len(storedItems) = 2
    /\ ProjectionMatches(storedItems, store)

(***************************************************************************)
(* C17: from an empty store, every stored key is non-empty and neither     *)
(* starts nor ends with white space.                                       *)
(***************************************************************************)
C17_StoredKeysTrimmed ==
    \A k \in Keys(store) :
        /\ k # << >>
        /\ ~IsWhiteSpace(k[1])
        /\ ~IsWhiteSpace(k[Len(k)])

\* a key typed with a tab before and a space after it is stored as "a"
C17_Witness ==
    /\ lastOp = "saveOk"
    /\ Keys(store) = {<<97>>}
    /\ getItem(store, <<97>>) = <<32, 233>>

(***************************************************************************)
(* C15: a notification's lifetime is bounded: the firing of a dismissal    *)
(* timer leaves nothing showing, whatever is showing is eventually gone,   *)
(* and an empty slot stays empty until a notification is posted (which     *)
(* starts a timer); so without further posts the slot ends up empty.       *)
(***************************************************************************)
C15_NotificationBounded ==
    /\ [][lastOp' = "timer" => notification' = NoNotification]_vars
    /\ [][(notification = NoNotification /\ notification' # NoNotification)
            => timers' = timers + 1]_vars
    /\ (notification # NoNotification) ~> (notification = NoNotification)

\* the last pending timer has fired and nothing is showing
C15_Witness ==
    /\ lastOp = "timer"
    /\ timers = 0
    /\ notification = NoNotification
    /\ Len(storedItems) = 2

(***************************************************************************)
(* C18: generateSampleData issues exactly one request; when the response   *)
(* text does not parse as JSON it returns an empty list (a value, not an   *)
(* exception), asks nothing again, and leaves store and draft buffer as    *)
(* they were.                                                              *)
(***************************************************************************)
C18_ParseFailureYieldsEmptyList ==
    /\ [](\A i \in 1..Len(sample) : Len(sample[i].requests) = 1)
    /\ [](\A i \in 1..Len(sample) :
             (sample[i].text # NoResponse /\ ~JSONParse(sample[i].text).ok) =>
                /\ sample[i].pc = "returned"
                /\ sample[i].result = [kind |-> "value", json |-> [type |-> "array", items |-> << >>]])
    /\ [][/\ Len(sample') >= Len(sample)
          /\ \A i \in 1..Len(sample) :
                /\ sample[i].pc # "awaiting" => sample'[i] = sample[i]
                /\ (sample[i].pc = "awaiting" /\ sample'[i] # sample[i]) =>
                      /\ sample'[i].pc \in {"returned", "thrown"}
                      /\ sample'[i].requests = sample[i].requests]_vars
    /\ [][sample' # sample =>
             /\ store' = store
             /\ inputs' = inputs
             /\ storedItems' = storedItems]_vars

\* a truncated response was turned into the empty list, while a second call
\* was still waiting for its own response, the store held an entry and a
\* typed draft was waiting in the buffer
C18_Witness ==
    /\ Len(sample) = 2
    /\ sample[1].pc = "awaiting"
    /\ sample[2].pc = "returned"
    /\ sample[2].text = "[{\"key\":"
    /\ sample[2].result.json.items = << >>
    /\ Len(sample[1].requests) = 1
    /\ Len(sample[2].requests) = 1
    /\ length(store) = 1
    /\ inputs[1].key = <<97>>

====
